---- MODULE Spec2Model ----
(***************************************************************************)
(* Adaptive density-controlled training step of the batch splat trainer    *)
(* (crates/brush-train/src/train.rs): SplatTrainer::step, prune_points,    *)
(* reset_stats, reset_opacity and quaternion_rotation.                     *)
(*                                                                         *)
(* Conventions.                                                            *)
(*  - A tensor of n rows is a sequence of length n; row i of the code       *)
(*    (0-based) is element i+1 here. Index lists hold these positions.     *)
(*  - Floats are fixed point. Lengths, scales and positions are in units   *)
(*    of 1e-4; effective opacity (sigmoid) is in units of 1e-4; the raw    *)
(*    opacity logit is in tenths; a log-scale is in units of ln(1.6), so    *)
(*    exp(k) is 1.6^k and dividing a scale by 1.6 lowers its log by one.   *)
(*  - A step is cut at the operations of its refinement block (the two     *)
(*    culling prunes, the clone, the split concatenation, the split prune, *)
(*    the final resets); pc is the position of the step between them.      *)
(***************************************************************************)
EXTENDS Integers, Sequences, FiniteSets, TLC

VARIABLES
    splats,          \* the point set: means, rotation, sh_coeffs, raw_opacity, log_scales
    grad_2d_accum,   \* SplatTrainer.grad_2d_accum
    xy_grad_counts,  \* SplatTrainer.xy_grad_counts
    iter,            \* SplatTrainer.iter
    optim,           \* rows the optimizer's moment state was created for (0: fresh)
    sched_mean,      \* number of sched_mean.step() calls made so far
    config,          \* SplatTrainer.config
    grads,           \* local of step: the parameters the last backward pass gave a gradient for
    lr_applied,      \* local of step: the rate the last optimizer update of means was called with
    optim_updates,   \* local of step: the optimizer updates the last step made, in order
    stats,           \* the TrainStepStats the last step returned: lr_mean and iter
    max_radii_2d,        \* single-view SplatTrainer.max_radii_2d
    xy_grad_norm_accum,  \* single-view SplatTrainer.xy_grad_norm_accum
    clone_mask,      \* local of step: clone_mask of the running refinement
    split_mask,      \* local of step: split_mask of the running refinement
    pc               \* position of the running step

\* The statistics of the single-view trainer (src/train.rs).
sv_stats == <<max_radii_2d, xy_grad_norm_accum>>

vars == <<splats, grad_2d_accum, xy_grad_counts, iter, optim, sched_mean,
          config, grads, lr_applied, optim_updates, stats, sv_stats, clone_mask, split_mask, pc>>

(***************************************************************************)
(* Bounds of the exploration.                                              *)
(***************************************************************************)
MaxInitPoints == 2
MaxPoints == 3
MaxIter == 3
MaxSchedIter == 7
MaxInitPointsSV == 9
MaxIterSV == 3

(***************************************************************************)
(* Fixed point helpers.                                                    *)
(***************************************************************************)
\* The split divides a scale by 1.6 = SplitShrinkDen / SplitShrinkNum.
SplitShrinkNum == 10
SplitShrinkDen == 16

\* The log-scales the fixed point covers.
LogScaleRange == -16..4

Max2(a, b) == IF a >= b THEN a ELSE b
Min2(a, b) == IF a <= b THEN a ELSE b

\* exp of a log-scale given in units of ln(1.6): 1.6^k, in units of 1e-4.
ExpLS[k \in LogScaleRange] ==
    IF k = 0 THEN 10000
    ELSE IF k > 0 THEN (ExpLS[k - 1] * SplitShrinkDen) \div SplitShrinkNum
    ELSE (ExpLS[k + 1] * SplitShrinkNum) \div SplitShrinkDen

Exp(k) == ExpLS[k]

\* log of a scale in units of 1e-4, in units of ln(1.6) (floor).
Log(v) == CHOOSE k \in LogScaleRange :
              /\ ExpLS[k] <= v
              /\ \A j \in LogScaleRange : ExpLS[j] <= v => j <= k

\* sigmoid(x / 10) * 1e4 for x in -40..40 (x is a logit in tenths).
SigmoidTable ==
    << 180, 198, 219, 241, 266, 293, 323, 356, 392,
       431, 474, 522, 573, 630, 691, 759, 832, 911,
       998, 1091, 1192, 1301, 1419, 1545, 1680, 1824, 1978,
       2142, 2315, 2497, 2689, 2891, 3100, 3318, 3543, 3775,
       4013, 4256, 4502, 4750, 5000, 5250, 5498, 5744, 5987,
       6225, 6457, 6682, 6900, 7109, 7311, 7503, 7685, 7858,
       8022, 8176, 8320, 8455, 8581, 8699, 8808, 8909, 9002,
       9089, 9168, 9241, 9309, 9370, 9427, 9478, 9526, 9569,
       9608, 9644, 9677, 9707, 9734, 9759, 9781, 9802, 9820 >>

Sigmoid(x) == SigmoidTable[Max2(-40, Min2(40, x)) + 41]

ISqrt(n) == CHOOSE r \in 0..n : r * r <= n /\ n < (r + 1) * (r + 1)

(***************************************************************************)
(* Tensor helpers (burn): select, argwhere, bool_not, cat, max_dim.        *)
(***************************************************************************)
Select(t, inds) == [j \in 1..Len(inds) |-> t[inds[j]]]

RECURSIVE ArgWhereFrom(_, _)
ArgWhereFrom(mask, i) ==
    IF i > Len(mask) THEN <<>>
    ELSE (IF mask[i] THEN <<i>> ELSE <<>>) \o ArgWhereFrom(mask, i + 1)

ArgWhere(mask) == ArgWhereFrom(mask, 1)

BoolNot(mask) == [i \in 1..Len(mask) |-> ~mask[i]]

Zeros(n) == [i \in 1..n |-> 0]

RepeatDim2(t) == t \o t

MaxDim(v) == Max2(v[1], Max2(v[2], v[3]))

\* log_scales.val().exp().max_dim(1).squeeze(1)
MaxScale(log_scales) == [i \in 1..Len(log_scales) |->
                            MaxDim([a \in 1..3 |-> Exp(log_scales[i][a])])]

\* Elementwise vector arithmetic.
VAdd(u, v) == [a \in 1..Len(u) |-> u[a] + v[a]]
VSub(u, v) == [a \in 1..Len(u) |-> u[a] - v[a]]
VMul(u, v) == [a \in 1..Len(u) |-> u[a] * v[a]]

\* The unit quaternion (1, 0, 0, 0); quaternion components are in fifths.
QuatIdentity == <<5, 0, 0, 0>>
QuatOne == QuatIdentity[1]

\* quaternion_rotation for one row: q = (w, x, y, z), v = (vx, vy, vz).
QuaternionRotationRow(q, v) ==
    << (q[1] * v[1] + q[3] * v[3] - q[4] * v[2]) \div QuatOne,
       (q[1] * v[2] - q[2] * v[3] + q[4] * v[1]) \div QuatOne,
       (q[1] * v[3] + q[2] * v[2] - q[3] * v[1]) \div QuatOne >>

quaternion_rotation(quaternions, vectors) ==
    [i \in 1..Len(vectors) |-> QuaternionRotationRow(quaternions[i], vectors[i])]

(***************************************************************************)
(* The point set (brush_render::gaussian_splats::Splats).                 *)
(***************************************************************************)
NumSplats(s) == Len(s.means)

\* Splats::concat_splats: appends the new rows to every point array.
ConcatSplats(s, new_means, new_rots, new_coeffs, new_opac, new_scales) ==
    [means       |-> s.means \o new_means,
     rotation    |-> s.rotation \o new_rots,
     sh_coeffs   |-> s.sh_coeffs \o new_coeffs,
     raw_opacity |-> s.raw_opacity \o new_opac,
     log_scales  |-> s.log_scales \o new_scales]

\* Splats::norm_rotations: every quaternion is scaled to unit length.
NormQuat(q) ==
    LET len == ISqrt(q[1] * q[1] + q[2] * q[2] + q[3] * q[3] + q[4] * q[4])
    IN  IF len = 0 THEN q ELSE [a \in 1..4 |-> (q[a] * QuatOne) \div len]

NormRotations(s) ==
    [s EXCEPT !.rotation = [i \in 1..Len(s.rotation) |-> NormQuat(s.rotation[i])]]

(***************************************************************************)
(* Configuration (TrainConfig). Thresholds are fixed point: opacity and    *)
(* scales in units of 1e-4, the gradient threshold in the unit of the      *)
(* gradient magnitudes.                                                    *)
(***************************************************************************)
Configs ==
    { [warmup_steps |-> 0, refine_every |-> 1, reset_alpha_every |-> 2,
       cull_alpha_thresh |-> 1000, cull_scale_thresh |-> 5000,
       densify_grad_thresh |-> 2, densify_size_thresh |-> 144],
      [warmup_steps |-> 0, refine_every |-> 2, reset_alpha_every |-> 1,
       cull_alpha_thresh |-> 1000, cull_scale_thresh |-> 5000,
       densify_grad_thresh |-> 2, densify_size_thresh |-> 144] }

\* The image of every batch is ImgW x ImgH pixels.
ImgDims == <<2, 2>>

(***************************************************************************)
(* Inputs of the exploration: the initial point set, the parameter changes *)
(* an optimizer update makes, the screen-space gradients the backward pass *)
(* returns, the normal samples of a split, and what a read past the end    *)
(* of a tensor yields.                                                     *)
(***************************************************************************)
InitMeans(i) == <<i * 10000, 0, -i * 10000>>
InitRotation(i) == IF i % 2 = 1 THEN QuatIdentity ELSE <<3, 4, 0, 0>>

\* Initial rows: barely visible; small; of the densify size; huge.
InitRows ==
    { [raw_opacity |-> -30, log_scales |-> <<-10, -11, -11>>],
      [raw_opacity |-> 0,   log_scales |-> <<-10, -11, -11>>],
      [raw_opacity |-> 0,   log_scales |-> <<-9, -10, -10>>],
      [raw_opacity |-> 0,   log_scales |-> <<-1, -5, -5>>] }

ZeroDelta ==
    [means |-> <<0, 0, 0>>, raw_opacity |-> 0, sh_coeffs |-> <<0>>,
     rotation |-> <<0, 0, 0, 0>>, log_scales |-> <<0, 0, 0>>]

Deltas ==
    { ZeroDelta,
      [ZeroDelta EXCEPT !.raw_opacity = -25],
      [ZeroDelta EXCEPT !.log_scales = <<1, 0, 0>>],
      [ZeroDelta EXCEPT !.means = <<100, 0, 0>>, !.sh_coeffs = <<1>>,
                        !.rotation = <<-2, 4, 0, 0>>] }

\* The optimizer updates of a step change the first row, by one of Deltas.
Updates(n) == {[i \in 1..n |-> IF i = 1 THEN d ELSE ZeroDelta] : d \in Deltas}

\* The screen-space gradients of a step, row by row: none visible; all at
\* the threshold; odd rows at the threshold and even rows below it.
XysGrads(n) ==
    { [i \in 1..n |-> <<0, 0>>],
      [i \in 1..n |-> <<0, 2>>],
      [i \in 1..n |-> IF i % 2 = 1 THEN <<0, 2>> ELSE <<1, 0>>] }

NormalVals == { <<1, 0, 0>>, <<0, -1, 2>> }
OutOfBoundsReads == {0, 1}

(***************************************************************************)
(* SplatTrainer::new                                                       *)
(***************************************************************************)
Init ==
    /\ config \in Configs
    /\ \E n \in 1..MaxInitPoints :
         /\ \E rows \in [1..n -> InitRows] :
              splats = [means       |-> [i \in 1..n |-> InitMeans(i)],
                        rotation    |-> [i \in 1..n |-> InitRotation(i)],
                        sh_coeffs   |-> [i \in 1..n |-> <<0>>],
                        raw_opacity |-> [i \in 1..n |-> rows[i].raw_opacity],
                        log_scales  |-> [i \in 1..n |-> rows[i].log_scales]]
         /\ grad_2d_accum = Zeros(n)
         /\ xy_grad_counts = Zeros(n)
    /\ iter = 0
    /\ optim = 0
    /\ sched_mean = 0
    /\ grads = {}
    /\ lr_applied = 0
    /\ optim_updates = <<>>
    /\ stats = [lr_mean |-> 0, iter |-> 0]
    /\ max_radii_2d = <<>>
    /\ xy_grad_norm_accum = <<>>
    /\ clone_mask = <<>>
    /\ split_mask = <<>>
    /\ pc = "idle"

(***************************************************************************)
(* SplatTrainer::reset_stats, reset_opacity                                *)
(***************************************************************************)
\* Zero logit plus cull_alpha_thresh * 2.0, in tenths of a logit.
ResetOpacityValue == (config.cull_alpha_thresh * 2) \div 1000

ResetOpacity(s) ==
    [s EXCEPT !.raw_opacity = [i \in 1..Len(s.raw_opacity) |-> 0 + ResetOpacityValue]]

\* reset_opacity of the single-view trainer: every logit is lowered by 1.0.
ResetOpacitySV(s) ==
    [s EXCEPT !.raw_opacity = [i \in 1..Len(s.raw_opacity) |-> s.raw_opacity[i] - 10]]

\* reset_stats called with the length the statistics already have.
ResetStatsLenStale(s) == Len(grad_2d_accum)

\* The num_points reset_stats is called with.
ResetStatsLen(s) == NumSplats(s)

(***************************************************************************)
(* SplatTrainer::prune_points                                              *)
(***************************************************************************)
\* PadMask padding with true: the rows the mask does not cover are pruned.
PadMaskTrue(prune, n) ==
    IF Len(prune) < n THEN prune \o [k \in 1..(n - Len(prune)) |-> TRUE] ELSE prune

\* The mask padded with false up to the point count.
PadMask(prune, n) ==
    IF Len(prune) < n THEN prune \o [k \in 1..(n - Len(prune)) |-> FALSE] ELSE prune

\* ValidInds without the bool_not: the rows the mask prunes.
ValidIndsNoNot(prune, n) ==
    ArgWhere(IF Len(prune) < n
             THEN prune \o [k \in 1..(n - Len(prune)) |-> FALSE] ELSE prune)

\* valid_inds: the rows the padded mask keeps, ascending.
ValidInds(prune, n) == ArgWhere(BoolNot(PadMask(prune, n)))

\* PruneSplats forgetting log_scales.
PruneSplatsNoScales(s, valid_inds) ==
    [means       |-> Select(s.means, valid_inds),
     sh_coeffs   |-> Select(s.sh_coeffs, valid_inds),
     rotation    |-> Select(s.rotation, valid_inds),
     raw_opacity |-> Select(s.raw_opacity, valid_inds),
     log_scales  |-> s.log_scales]

\* select(0, valid_inds) on the five point arrays.
PruneSplats(s, valid_inds) ==
    [means       |-> Select(s.means, valid_inds),
     sh_coeffs   |-> Select(s.sh_coeffs, valid_inds),
     rotation    |-> Select(s.rotation, valid_inds),
     raw_opacity |-> Select(s.raw_opacity, valid_inds),
     log_scales  |-> Select(s.log_scales, valid_inds)]

\* PruneStat truncating to the first rows instead of gathering the kept ones.
PruneStatTruncate(t, valid_inds, g) ==
    [j \in 1..Len(valid_inds) |-> IF j <= Len(t) THEN t[j] ELSE g]

\* select(0, valid_inds) on a statistics array; a read past its end yields g.
PruneStat(t, valid_inds, g) ==
    [j \in 1..Len(valid_inds) |->
        IF valid_inds[j] <= Len(t) THEN t[valid_inds[j]] ELSE g]

ReadsPastEnd(t, valid_inds) == \E j \in 1..Len(valid_inds) : valid_inds[j] > Len(t)

\* The call prune_points(splats, prune); the step goes on at `next`.
\* burn decides what a select yielding no row, or reading past the end of
\* its tensor, does: it panics, or it returns the rows (those past the end
\* holding whatever it read, each array on its own).
PrunePoints(prune, next) ==
    LET prune_count  == Len(prune)
        start_splats == NumSplats(splats)
        valid_inds   == ValidInds(prune, start_splats)
        new_points   == Len(valid_inds)
    IN  IF prune_count = 0 \/ ~(new_points < start_splats)
        THEN /\ pc' = next
             /\ UNCHANGED <<splats, grad_2d_accum, xy_grad_counts>>
        ELSE \/ /\ \E g \in (IF ReadsPastEnd(grad_2d_accum, valid_inds)
                             THEN OutOfBoundsReads ELSE {0}) :
                     grad_2d_accum' = PruneStat(grad_2d_accum, valid_inds, g)
                /\ \E g \in (IF ReadsPastEnd(xy_grad_counts, valid_inds)
                             THEN OutOfBoundsReads ELSE {0}) :
                     xy_grad_counts' = PruneStat(xy_grad_counts, valid_inds, g)
                /\ splats' = PruneSplats(splats, valid_inds)
                /\ pc' = next
             \/ /\ new_points = 0 \/ ReadsPastEnd(grad_2d_accum, valid_inds)
                /\ pc' = "panicked"
                /\ UNCHANGED <<splats, grad_2d_accum, xy_grad_counts>>

(***************************************************************************)
(* SplatTrainer::prune_points of the single-view trainer (src/train.rs):   *)
(* the point set and the two statistics arrays after the call.             *)
(***************************************************************************)
PrunePointsSV(s, radii, accum, prune) ==
    LET valid_inds   == ArgWhere(BoolNot(prune))
        start_splats == NumSplats(s)
        new_points   == Len(valid_inds)
    IN  IF new_points < start_splats
        THEN [splats             |-> PruneSplats(s, valid_inds),
              max_radii_2d       |-> Select(radii, valid_inds),
              xy_grad_norm_accum |-> Select(accum, valid_inds)]
        ELSE [splats             |-> s,
              max_radii_2d       |-> radii,
              xy_grad_norm_accum |-> accum]

(***************************************************************************)
(* SplatTrainer::step                                                      *)
(***************************************************************************)
\* One optimizer update of one parameter group: every row moves by its delta.
GroupUpdate(s, upd, field) ==
    IF field = "raw_opacity"
    THEN [s EXCEPT !.raw_opacity =
              [i \in 1..Len(s.raw_opacity) |-> s.raw_opacity[i] + upd[i].raw_opacity]]
    ELSE [s EXCEPT ![field] =
              [i \in 1..Len(s[field]) |-> VAdd(s[field][i], upd[i][field])]]

\* The groups without the rotation group.
OptimizerGroupsNoRotation ==
    << [param |-> "means",       lr |-> "sched_mean"],
       [param |-> "raw_opacity", lr |-> "lr_opac"],
       [param |-> "sh_coeffs",   lr |-> "lr_coeffs"],
       [param |-> "log_scales",  lr |-> "lr_scale"] >>

\* The gradient groups of a step, in the order of the code: the parameter
\* whose gradient is removed from the store and registered, and the rate
\* optim.step is called with.
OptimizerGroups ==
    << [param |-> "means",       lr |-> "sched_mean"],
       [param |-> "raw_opacity", lr |-> "lr_opac"],
       [param |-> "sh_coeffs",   lr |-> "lr_coeffs"],
       [param |-> "rotation",    lr |-> "lr_rotation"],
       [param |-> "log_scales",  lr |-> "lr_scale"] >>

RECURSIVE ApplyGroups(_, _, _)
ApplyGroups(s, upd, groups) ==
    IF groups = <<>> THEN s
    ELSE ApplyGroups(GroupUpdate(s, upd, Head(groups).param), upd, Tail(groups))

\* The five updates, in the order of the code.
OptimizerStep(s, upd) == ApplyGroups(s, upd, OptimizerGroups)

\* The updates made before the step unwraps a gradient the backward pass
\* g did not give: the groups ahead of the first one whose gradient is missing.
RECURSIVE UpdatesMade(_, _)
UpdatesMade(groups, g) ==
    IF groups = <<>> \/ Head(groups).param \notin g THEN <<>>
    ELSE <<Head(groups)>> \o UpdatesMade(Tail(groups), g)

\* A non-finite float (NaN) is a value below zero: the gradient components,
\* magnitudes and sums of the exploration are otherwise never negative.
\* Arithmetic on a NaN yields a NaN and every comparison with a NaN is false.
IsNaN(x) == x < 0

\* xys_grad from normalized to pixels, then its magnitude per row.
GradMag(xys_grad) ==
    [i \in 1..Len(xys_grad) |->
        LET gx == (xys_grad[i][1] * ImgDims[1]) \div 2
            gy == (xys_grad[i][2] * ImgDims[2]) \div 2
        IN  IF IsNaN(gx) \/ IsNaN(gy) THEN Min2(gx, gy)
            ELSE ISqrt(gx * gx + gy * gy)]

\* The accumulation without the warmup gate.
AccumulatingAlways == TRUE

Accumulating == iter > config.warmup_steps

\* Every step refines.
RefiningAlways == TRUE

\* The refinement condition without the warmup gate.
RefiningNoWarmup == iter % config.refine_every = 0

Refining == iter > config.warmup_steps /\ iter % config.refine_every = 0

GradAccumAdd(accum, grad_mag) ==
    [i \in 1..Len(accum) |->
        IF IsNaN(accum[i]) THEN accum[i]
        ELSE IF IsNaN(grad_mag[i]) THEN grad_mag[i]
        ELSE accum[i] + grad_mag[i]]

\* The counts raised in every accumulating step, whatever the magnitude.
GradCountAddAlways(counts, grad_mag) == [i \in 1..Len(counts) |-> counts[i] + 1]

GradCountAdd(counts, grad_mag) ==
    [i \in 1..Len(counts) |-> counts[i] + (IF grad_mag[i] > 0 THEN 1 ELSE 0)]

\* ExponentialLrScheduler::step: the value of the k-th call, the initial
\* rate decayed k - 1 times by gamma (here 0.9), in units of 1e-10.
RECURSIVE SchedValue(_)
SchedValue(k) == IF k <= 1 THEN 1600000 ELSE (SchedValue(k - 1) * 9) \div 10

\* The parameters whose gradient the step takes out of the backward pass.
RequiredGradsNone == {}

RequiredGrads ==
    {"means", "raw_opacity", "sh_coeffs", "rotation", "log_scales", "xys_dummy"}

\* Housekeeping that leaves the rotations as the optimizer made them.
HousekeepingNoNorm(s) == s

\* The housekeeping of the point set after the optimizer step.
Housekeeping(s) == NormRotations(s)

\* A step that starts whatever the position of a running step.
StepMayStartAnyTime == TRUE

\* step takes the trainer by exclusive reference and the point set by
\* value: its caller holds neither until the step has returned.
StepMayStart == pc = "idle"

\* Render, loss, backward pass, optimizer step and housekeeping of one step,
\* for the optimizer updates, the screen-space gradients and the sets of
\* gradients the backward pass may give; a step that does not refine also
\* ends here. A step that misses a gradient panics where it unwraps it: a
\* missing means gradient before the first optimizer update, any other
\* after it.
StepBody(updates, xys_grads, backward) ==
    /\ \E g \in backward :
         /\ grads' = g
         /\ IF RequiredGrads \subseteq g
            THEN /\ \E upd \in updates, xys_grad \in xys_grads :
                      LET grad_mag == GradMag(xys_grad)
                      IN  /\ splats' = Housekeeping(OptimizerStep(splats, upd))
                          /\ IF Accumulating
                             THEN /\ grad_2d_accum' = GradAccumAdd(grad_2d_accum, grad_mag)
                                  /\ xy_grad_counts' = GradCountAdd(xy_grad_counts, grad_mag)
                             ELSE UNCHANGED <<grad_2d_accum, xy_grad_counts>>
                 /\ optim' = NumSplats(splats)
                 /\ lr_applied' = SchedValue(sched_mean + 1)
                 /\ optim_updates' = UpdatesMade(OptimizerGroups, g)
                 /\ IF Refining
                    THEN /\ pc' = "cull_alpha"
                         /\ sched_mean' = sched_mean + 1
                         /\ UNCHANGED <<iter, stats>>
                    ELSE /\ pc' = "idle"
                         /\ sched_mean' = sched_mean + 2
                         /\ iter' = iter + 1
                         /\ stats' = [lr_mean |-> SchedValue(sched_mean + 2),
                                      iter    |-> iter + 1]
            ELSE /\ pc' = "panicked"
                 /\ optim_updates' = UpdatesMade(OptimizerGroups, g)
                 /\ IF "means" \in g
                    THEN /\ optim' = NumSplats(splats)
                         /\ lr_applied' = SchedValue(sched_mean + 1)
                         /\ sched_mean' = sched_mean + 1
                    ELSE UNCHANGED <<optim, sched_mean, lr_applied>>
                 /\ UNCHANGED <<splats, grad_2d_accum, xy_grad_counts, iter, stats>>
    /\ UNCHANGED <<config, clone_mask, split_mask, sv_stats>>

TrainStep ==
    /\ StepMayStart
    /\ iter < MaxIter
    /\ NumSplats(splats) <= MaxPoints
    /\ StepBody(Updates(NumSplats(splats)), XysGrads(NumSplats(splats)),
                {RequiredGrads})

\* The alpha mask taken on the raw logit, without the sigmoid.
AlphaMaskRaw(s) ==
    [i \in 1..NumSplats(s) |-> s.raw_opacity[i] < config.cull_alpha_thresh]

\* Remove barely visible gaussians.
AlphaMask(s) ==
    [i \in 1..NumSplats(s) |-> Sigmoid(s.raw_opacity[i]) < config.cull_alpha_thresh]

CullAlpha ==
    /\ pc = "cull_alpha"
    /\ PrunePoints(AlphaMask(splats), "cull_scale")
    /\ UNCHANGED <<iter, optim, sched_mean, config, grads, lr_applied,
                   optim_updates, stats, sv_stats,
                   clone_mask, split_mask>>

\* Delete gaussians with too large of a radius in world-units.
ScaleMask(s) ==
    [i \in 1..NumSplats(s) |-> MaxScale(s.log_scales)[i] > config.cull_scale_thresh]

CullScale ==
    /\ pc = "cull_scale"
    /\ PrunePoints(ScaleMask(splats), "clone")
    /\ UNCHANGED <<iter, optim, sched_mean, config, grads, lr_applied,
                   optim_updates, stats, sv_stats,
                   clone_mask, split_mask>>

\* grads = grad_2d_accum / xy_grad_counts.clamp_min(1), kept as a fraction.
AvgGrads(accum, counts) ==
    [i \in 1..Len(accum) |-> [num |-> accum[i], den |-> Max2(counts[i], 1)]]

BigGradMask(accum, counts) ==
    LET avg == AvgGrads(accum, counts)
    IN  [i \in 1..Len(avg) |->
            avg[i].num >= config.densify_grad_thresh * avg[i].den]

\* SplitCloneSizeMask with lower_equal_elem.
SplitCloneSizeMaskInclusive(s) ==
    [i \in 1..NumSplats(s) |-> MaxScale(s.log_scales)[i] <= config.densify_size_thresh]

SplitCloneSizeMask(s) ==
    [i \in 1..NumSplats(s) |-> MaxScale(s.log_scales)[i] < config.densify_size_thresh]

CloneMask(s, accum, counts) ==
    [i \in 1..NumSplats(s) |->
        SplitCloneSizeMask(s)[i] /\ BigGradMask(accum, counts)[i]]

SplitMask(s, accum, counts) ==
    [i \in 1..NumSplats(s) |->
        BoolNot(SplitCloneSizeMask(s))[i] /\ BigGradMask(accum, counts)[i]]

\* CloneSplats taking the new means from the first rows, not the cloned ones.
CloneSplatsFirstMeans(s, clone_inds) ==
    ConcatSplats(s, Select(s.means, [j \in 1..Len(clone_inds) |-> j]),
                 Select(s.rotation, clone_inds),
                 Select(s.sh_coeffs, clone_inds), Select(s.raw_opacity, clone_inds),
                 Select(s.log_scales, clone_inds))

\* The rows the clone appends.
CloneSplats(s, clone_inds) ==
    ConcatSplats(s, Select(s.means, clone_inds), Select(s.rotation, clone_inds),
                 Select(s.sh_coeffs, clone_inds), Select(s.raw_opacity, clone_inds),
                 Select(s.log_scales, clone_inds))

\* The masks of the refinement, then the clone.
Clone ==
    /\ pc = "clone"
    /\ clone_mask' = CloneMask(splats, grad_2d_accum, xy_grad_counts)
    /\ split_mask' = SplitMask(splats, grad_2d_accum, xy_grad_counts)
    /\ LET clone_where == ArgWhere(clone_mask')
       IN  IF Len(clone_where) > 0
           THEN splats' = CloneSplats(splats, clone_where)
           ELSE UNCHANGED splats
    /\ pc' = "split"
    /\ UNCHANGED <<grad_2d_accum, xy_grad_counts, iter, optim, sched_mean, config, grads,
                   lr_applied, optim_updates, stats, sv_stats>>

\* ShrunkLogScale dividing by 2.
ShrunkLogScaleHalf(scale) == Log(scale \div 2)

\* (cur_scale / 1.6).log()
ShrunkLogScale(scale) == Log((scale * SplitShrinkNum) \div SplitShrinkDen)

\* The children of the split: rnd holds the normal sample of every parent.
SplitChildren(s, split_inds, rnd) ==
    LET cur_pos   == Select(s.means, split_inds)
        cur_rots  == Select(s.rotation, split_inds)
        cur_coeff == Select(s.sh_coeffs, split_inds)
        cur_opac  == Select(s.raw_opacity, split_inds)
        cur_scale == [k \in 1..Len(split_inds) |->
                         [a \in 1..3 |-> Exp(s.log_scales[split_inds[k]][a])]]
        samples   == quaternion_rotation(cur_rots,
                         [k \in 1..Len(split_inds) |-> VMul(rnd[k], cur_scale[k])])
    IN  [means       |-> [k \in 1..Len(split_inds) |-> VAdd(cur_pos[k], samples[k])]
                         \o [k \in 1..Len(split_inds) |-> VSub(cur_pos[k], samples[k])],
         rotation    |-> RepeatDim2(cur_rots),
         sh_coeffs   |-> RepeatDim2(cur_coeff),
         raw_opacity |-> RepeatDim2(cur_opac),
         log_scales  |-> RepeatDim2([k \in 1..Len(split_inds) |->
                             [a \in 1..3 |-> ShrunkLogScale(cur_scale[k][a])]])]

\* The split the other way around: the parents are pruned first.
SplitPruneFirst ==
    /\ pc = "split"
    /\ IF Len(ArgWhere(split_mask)) > 0
       THEN /\ splats' = PruneSplats(splats, ValidInds(split_mask, NumSplats(splats)))
            /\ pc' = "split_prune"
       ELSE /\ UNCHANGED splats
            /\ pc' = "finish"
    /\ UNCHANGED <<grad_2d_accum, xy_grad_counts, iter, optim, sched_mean, config,
                   grads, lr_applied, optim_updates, stats, sv_stats, clone_mask, split_mask>>

\* Concat then prune, so that the point set is never empty: the concat.
SplitConcat ==
    /\ pc = "split"
    /\ LET split_where == ArgWhere(split_mask)
       IN  IF Len(split_where) > 0
           THEN /\ \E rnd \in [1..Len(split_where) -> NormalVals] :
                     LET c == SplitChildren(splats, split_where, rnd)
                     IN  splats' = ConcatSplats(splats, c.means, c.rotation,
                                       c.sh_coeffs, c.raw_opacity, c.log_scales)
                /\ pc' = "split_prune"
           ELSE /\ UNCHANGED splats
                /\ pc' = "finish"
    /\ UNCHANGED <<grad_2d_accum, xy_grad_counts, iter, optim, sched_mean, config,
                   grads, lr_applied, optim_updates, stats, sv_stats, clone_mask, split_mask>>

\* ... and the prune of the parents.
SplitPrune ==
    /\ pc = "split_prune"
    /\ PrunePoints(split_mask, "finish")
    /\ UNCHANGED <<iter, optim, sched_mean, config, grads, lr_applied,
                   optim_updates, stats, sv_stats,
                   clone_mask, split_mask>>

\* The reset condition on the iteration index alone.
ResettingOpacityEveryIter == iter % config.reset_alpha_every = 0

ResettingOpacity == iter % (config.refine_every * config.reset_alpha_every) = 0

\* The moment state carried over the refinement.
KeepOptim(o) == o

\* opt_config.init(): a fresh optimizer, whatever moment state the old one held.
InitOptim(o) == 0

\* End of the refinement block and of the step.
Finish ==
    /\ pc = "finish"
    /\ splats' = (IF ResettingOpacity THEN ResetOpacity(splats) ELSE splats)
    /\ grad_2d_accum' = Zeros(ResetStatsLen(splats))
    /\ xy_grad_counts' = Zeros(ResetStatsLen(splats))
    /\ optim' = InitOptim(optim)
    /\ iter' = iter + 1
    /\ sched_mean' = sched_mean + 1
    /\ clone_mask' = <<>>
    /\ split_mask' = <<>>
    /\ pc' = "idle"
    /\ stats' = [lr_mean |-> SchedValue(sched_mean + 1), iter |-> iter + 1]
    /\ UNCHANGED <<config, grads, lr_applied, optim_updates, sv_stats>>

Next ==
    \/ TrainStep
    \/ CullAlpha
    \/ CullScale
    \/ Clone
    \/ SplitConcat
    \/ SplitPrune
    \/ Finish

Spec == Init /\ [][Next]_vars

(***************************************************************************)
(* The schedule of the trainer over a longer run of one point set, for     *)
(* every small warmup_steps, refine_every and reset_alpha_every, with      *)
(* backward passes that miss a gradient or give a non-finite one.          *)
(***************************************************************************)
SchedConfigs ==
    { [warmup_steps |-> w, refine_every |-> r, reset_alpha_every |-> a,
       cull_alpha_thresh |-> 1000, cull_scale_thresh |-> 5000,
       densify_grad_thresh |-> 2, densify_size_thresh |-> 144] :
         w \in 0..2, r \in 1..3, a \in 1..2 }

\* The optimizer leaves every row where it is.
SchedUpdates(n) == {[i \in 1..n |-> ZeroDelta]}

\* No row visible; every row at the threshold; a non-finite gradient in
\* the first row.
SchedXysGrads(n) ==
    { [i \in 1..n |-> <<0, 0>>],
      [i \in 1..n |-> <<0, 2>>],
      [i \in 1..n |-> IF i = 1 THEN <<-1, 0>> ELSE <<0, 0>>] }

\* The backward pass gives every gradient, or misses one.
Backwards == {RequiredGrads} \cup {RequiredGrads \ {p} : p \in RequiredGrads}

InitSched ==
    /\ config \in SchedConfigs
    /\ splats = [means       |-> <<InitMeans(1)>>,
                 rotation    |-> <<InitRotation(1)>>,
                 sh_coeffs   |-> << <<0>> >>,
                 raw_opacity |-> <<0>>,
                 log_scales  |-> << <<-9, -10, -10>> >>]
    /\ grad_2d_accum = Zeros(1)
    /\ xy_grad_counts = Zeros(1)
    /\ iter = 0
    /\ optim = 0
    /\ sched_mean = 0
    /\ grads = {}
    /\ lr_applied = 0
    /\ optim_updates = <<>>
    /\ stats = [lr_mean |-> 0, iter |-> 0]
    /\ max_radii_2d = <<>>
    /\ xy_grad_norm_accum = <<>>
    /\ clone_mask = <<>>
    /\ split_mask = <<>>
    /\ pc = "idle"

TrainStepSched ==
    /\ StepMayStart
    /\ iter < MaxSchedIter
    /\ NumSplats(splats) <= MaxPoints
    /\ StepBody(SchedUpdates(NumSplats(splats)), SchedXysGrads(NumSplats(splats)),
                Backwards)

NextSched ==
    \/ TrainStepSched
    \/ CullAlpha
    \/ CullScale
    \/ Clone
    \/ SplitConcat
    \/ SplitPrune
    \/ Finish

SpecSched == InitSched /\ [][NextSched]_vars

(***************************************************************************)
(* The single-view trainer (src/train.rs): SplatTrainer::step,             *)
(* update_stats, densify_and_prune, prune_points, reset_opacity. Its step  *)
(* is cut at the call of densify_and_prune and at its return. The          *)
(* thresholds are fixed point as for the batch trainer; radii are pixels.  *)
(***************************************************************************)
\* clone_where.dims()[0] >= 4, split_where.dims()[0] >= 4.
MinSelectSV == 4

SVConfigs ==
    { [warmup_steps |-> 1, refine_every |-> 2, reset_alpha_every |-> 1,
       prune_alpha_thresh |-> 500, prune_scale_thresh |-> 50,
       clone_split_grad_threshold |-> 80, split_clone_size_threshold |-> 100,
       cull_scale_thresh |-> 5000, cull_screen_size |-> 15] }

\* Width and height of the view image.
ImgSizeSV == <<40, 20>>

\* Initial rows of the single-view exploration: of the clone size; of the
\* split size; barely visible; smaller than prune_scale_thresh.
CloneRowSV == [raw_opacity |-> 0,   log_scales |-> <<-10, -11, -11>>]
SplitRowSV == [raw_opacity |-> 0,   log_scales |-> <<-9, -10, -10>>]
ExtraRowsSV ==
    { [raw_opacity |-> -30, log_scales |-> <<-10, -11, -11>>],
      [raw_opacity |-> 0,   log_scales |-> <<-12, -12, -12>>] }

\* The radii the render reports, row by row, in pixels: nothing visible;
\* all small; the last row larger than the screen-size threshold.
RadiiSV(n) ==
    { [i \in 1..n |-> 0],
      [i \in 1..n |-> 5],
      [i \in 1..n |-> IF i = n THEN 7 ELSE 5] }

\* The screen-space gradients: none; every row at the threshold.
XysGradsSV(n) ==
    { [i \in 1..n |-> <<0, 0>>],
      [i \in 1..n |-> <<0, 2>>] }

InitSV ==
    /\ config \in SVConfigs
    /\ \E n \in (2 * MinSelectSV)..MaxInitPointsSV :
         \E extra \in [(2 * MinSelectSV + 1)..n -> ExtraRowsSV] :
            LET row(i) == IF i <= MinSelectSV THEN CloneRowSV
                          ELSE IF i <= 2 * MinSelectSV THEN SplitRowSV
                          ELSE extra[i]
            IN  /\ splats = [means       |-> [i \in 1..n |-> InitMeans(i)],
                             rotation    |-> [i \in 1..n |-> InitRotation(i)],
                             sh_coeffs   |-> [i \in 1..n |-> <<0>>],
                             raw_opacity |-> [i \in 1..n |-> row(i).raw_opacity],
                             log_scales  |-> [i \in 1..n |-> row(i).log_scales]]
                /\ max_radii_2d = Zeros(n)
                /\ xy_grad_norm_accum = Zeros(n)
    /\ iter = 0
    /\ optim = 0
    /\ pc = "idle"
    /\ clone_mask = <<>>
    /\ split_mask = <<>>
    /\ grad_2d_accum = <<>>
    /\ xy_grad_counts = <<>>
    /\ sched_mean = 0
    /\ grads = {}
    /\ lr_applied = 0
    /\ optim_updates = <<>>
    /\ stats = [lr_mean |-> 0, iter |-> 0]

\* The three gradient groups of the single-view step: means, opacity, rest.
OptimizerGroupsSV ==
    << [param |-> "means",       lr |-> "sched_mean"],
       [param |-> "raw_opacity", lr |-> "sched_opac"],
       [param |-> "sh_coeffs",   lr |-> "sched_rest"],
       [param |-> "rotation",    lr |-> "sched_rest"],
       [param |-> "log_scales",  lr |-> "sched_rest"] >>

\* update_stats: the running maximum of the radii and of the gradient norms.
UpdateStatsSV(radii_max, accum, radii, xys_grad) ==
    [max_radii_2d       |-> [i \in 1..Len(radii_max) |-> Max2(radii_max[i], radii[i])],
     xy_grad_norm_accum |-> [i \in 1..Len(accum) |->
                                Max2(accum[i],
                                     ISqrt(xys_grad[i][1] * xys_grad[i][1]
                                           + xys_grad[i][2] * xys_grad[i][2]))]]

\* Remove barely visible gaussians.
AlphaMaskSV(s) ==
    [i \in 1..NumSplats(s) |-> Sigmoid(s.raw_opacity[i]) < config.prune_alpha_thresh]

\* The scale mask of the step: lower_elem(prune_scale_thresh).
ScaleMaskSV(s) ==
    [i \in 1..NumSplats(s) |-> MaxScale(s.log_scales)[i] < config.prune_scale_thresh]

\* The refinement condition of the single-view step.
RefiningSV == iter % config.refine_every = 0

\* The state a step leaves behind that neither the single-view step nor
\* densify_and_prune touches.
batch_only == <<grad_2d_accum, xy_grad_counts, sched_mean, grads, lr_applied,
                optim_updates, stats>>

\* The step up to the call of densify_and_prune, or to its end when it does
\* not call it: optimizer step, housekeeping, update_stats, and when the
\* step refines the two prunes of the step; reset_stats and the optimizer
\* re-initialisation close a refining step. The field densify tells that
\* densify_and_prune comes next.
StepResultSV(s, radii_max, accum, o, upd, xys_grad, radii) ==
    LET s1 == NormRotations(ApplyGroups(s, upd, OptimizerGroupsSV))
        st == UpdateStatsSV(radii_max, accum, radii, xys_grad)
        p1 == PrunePointsSV(s1, st.max_radii_2d, st.xy_grad_norm_accum,
                            AlphaMaskSV(s1))
        p2 == PrunePointsSV(p1.splats, p1.max_radii_2d, p1.xy_grad_norm_accum,
                            ScaleMaskSV(p1.splats))
    IN  IF RefiningSV
        THEN IF iter > config.warmup_steps
             THEN [splats |-> p2.splats, max_radii_2d |-> p2.max_radii_2d,
                   xy_grad_norm_accum |-> p2.xy_grad_norm_accum,
                   optim |-> NumSplats(s), densify |-> TRUE]
             ELSE [splats |-> p2.splats,
                   max_radii_2d |-> Zeros(NumSplats(p2.splats)),
                   xy_grad_norm_accum |-> Zeros(NumSplats(p2.splats)),
                   optim |-> InitOptim(o), densify |-> FALSE]
        ELSE [splats |-> s1, max_radii_2d |-> st.max_radii_2d,
              xy_grad_norm_accum |-> st.xy_grad_norm_accum,
              optim |-> NumSplats(s), densify |-> FALSE]

StepSV ==
    /\ pc = "idle"
    /\ iter < MaxIterSV
    /\ \E upd \in Updates(NumSplats(splats)),
          xys_grad \in XysGradsSV(NumSplats(splats)),
          radii \in RadiiSV(NumSplats(splats)) :
         LET r == StepResultSV(splats, max_radii_2d, xy_grad_norm_accum, optim,
                               upd, xys_grad, radii)
         IN  /\ splats' = r.splats
             /\ max_radii_2d' = r.max_radii_2d
             /\ xy_grad_norm_accum' = r.xy_grad_norm_accum
             /\ optim' = r.optim
             /\ pc' = (IF r.densify THEN "sv_densify" ELSE "idle")
             /\ iter' = (IF r.densify THEN iter ELSE iter + 1)
    /\ UNCHANGED <<config, clone_mask, split_mask, batch_only>>

\* The children of the single-view split: rnd holds the normal sample of
\* every child, two children per parent, each at the parent plus its rotated
\* sample. utils::quaternion_rotation(vectors, quaternions) is taken to be
\* the rotation of the batch trainer with its arguments in the other order.
SplitChildrenSV(s, split_inds, rnd) ==
    LET cur_pos   == RepeatDim2(Select(s.means, split_inds))
        cur_rots  == RepeatDim2(Select(s.rotation, split_inds))
        cur_scale == [k \in 1..Len(split_inds) |->
                         [a \in 1..3 |-> Exp(s.log_scales[split_inds[k]][a])]]
        scaled    == [k \in 1..(2 * Len(split_inds)) |->
                         VMul(RepeatDim2(cur_scale)[k], rnd[k])]
        rotated   == quaternion_rotation(cur_rots, scaled)
    IN  [means       |-> [k \in 1..(2 * Len(split_inds)) |-> VAdd(rotated[k], cur_pos[k])],
         rotation    |-> cur_rots,
         sh_coeffs   |-> RepeatDim2(Select(s.sh_coeffs, split_inds)),
         raw_opacity |-> RepeatDim2(Select(s.raw_opacity, split_inds)),
         log_scales  |-> RepeatDim2([k \in 1..Len(split_inds) |->
                             [a \in 1..3 |-> ShrunkLogScale(cur_scale[k][a])]])]

\* densify_and_prune as the step calls it: the two culls, the masks, the
\* clone and the split. All children of a split draw the normal sample v.
DensifyAndPruneSV(s, radii_max, accum, v) ==
    LET grad_threshold   == config.clone_split_grad_threshold
                                \div Max2(ImgSizeSV[1], ImgSizeSV[2])
        pixel_threshold  == (config.cull_screen_size * Max2(ImgSizeSV[2], ImgSizeSV[1]))
                                \div 100
        p1 == PrunePointsSV(s, radii_max, accum,
                  [i \in 1..Len(radii_max) |-> radii_max[i] > pixel_threshold])
        scales1 == MaxScale(p1.splats.log_scales)
        p2 == PrunePointsSV(p1.splats, p1.max_radii_2d, p1.xy_grad_norm_accum,
                  [i \in 1..NumSplats(p1.splats) |-> scales1[i] > config.cull_scale_thresh])
        scales2 == MaxScale(p2.splats.log_scales)
        big_grad_mask == [i \in 1..Len(p2.xy_grad_norm_accum) |->
                             p2.xy_grad_norm_accum[i] >= grad_threshold]
        size_mask     == [i \in 1..NumSplats(p2.splats) |->
                             scales2[i] < config.split_clone_size_threshold]
        cmask == [i \in 1..NumSplats(p2.splats) |-> size_mask[i] /\ big_grad_mask[i]]
        smask == [i \in 1..NumSplats(p2.splats) |-> ~size_mask[i] /\ big_grad_mask[i]]
        clone_where == ArgWhere(cmask)
        split_where == ArgWhere(smask)
        cloned == IF Len(clone_where) >= MinSelectSV
                  THEN CloneSplats(p2.splats, clone_where) ELSE p2.splats
        c  == SplitChildrenSV(cloned, split_where,
                              [k \in 1..(2 * Len(split_where)) |-> v])
        p3 == PrunePointsSV(cloned, p2.max_radii_2d, p2.xy_grad_norm_accum, smask)
    IN  IF Len(split_where) >= MinSelectSV
        THEN [splats |-> ConcatSplats(p3.splats, c.means, c.rotation,
                                      c.sh_coeffs, c.raw_opacity, c.log_scales),
              max_radii_2d |-> p3.max_radii_2d,
              xy_grad_norm_accum |-> p3.xy_grad_norm_accum,
              clone_mask |-> cmask, split_mask |-> smask]
        ELSE [splats |-> cloned,
              max_radii_2d |-> p2.max_radii_2d,
              xy_grad_norm_accum |-> p2.xy_grad_norm_accum,
              clone_mask |-> cmask, split_mask |-> smask]

DensifySV ==
    /\ pc = "sv_densify"
    /\ \E v \in NormalVals :
         LET r == DensifyAndPruneSV(splats, max_radii_2d, xy_grad_norm_accum, v)
         IN  /\ splats' = r.splats
             /\ max_radii_2d' = r.max_radii_2d
             /\ xy_grad_norm_accum' = r.xy_grad_norm_accum
             /\ clone_mask' = r.clone_mask
             /\ split_mask' = r.split_mask
    /\ pc' = "sv_finish"
    /\ UNCHANGED <<iter, optim, config, batch_only>>

\* The end of the refinement block and of the step.
FinishSV ==
    /\ pc = "sv_finish"
    /\ splats' = (IF ResettingOpacity THEN ResetOpacitySV(splats) ELSE splats)
    /\ max_radii_2d' = Zeros(NumSplats(splats))
    /\ xy_grad_norm_accum' = Zeros(NumSplats(splats))
    /\ optim' = InitOptim(optim)
    /\ iter' = iter + 1
    /\ pc' = "idle"
    /\ UNCHANGED <<config, clone_mask, split_mask, batch_only>>

NextSV ==
    \/ StepSV
    \/ DensifySV
    \/ FinishSV

SpecSV == InitSV /\ [][NextSV]_vars

(***************************************************************************)
(* Properties.                                                             *)
(***************************************************************************)
PointLens(s) == {Len(s.means), Len(s.rotation), Len(s.sh_coeffs),
                 Len(s.raw_opacity), Len(s.log_scales)}

StatLens == {Len(grad_2d_accum), Len(xy_grad_counts)}

RowAt(s, i) == <<s.means[i], s.rotation[i], s.sh_coeffs[i], s.raw_opacity[i],
                 s.log_scales[i]>>

TrueSet(mask) == {i \in 1..Len(mask) : mask[i]}

CountTrue(mask) == Cardinality(TrueSet(mask))

\* The position of the i-th row among the rows of `among`, ascending.
RankIn(among, i) == Cardinality({k \in among : k <= i})

\* new holds exactly the rows of old outside del, in their order.
KeptRowsAre(old, new, del) ==
    LET keep == (1..NumSplats(old)) \ del
    IN  /\ PointLens(new) = {Cardinality(keep)}
        /\ \A i \in keep : RowAt(new, RankIn(keep, i)) = RowAt(old, i)

\* The mask of the culling prune the step is about to run.
CullMask == IF pc = "cull_alpha" THEN AlphaMask(splats) ELSE ScaleMask(splats)

Culling == pc \in {"cull_alpha", "cull_scale"}

\* The point count when the masks of the refinement were computed, and the
\* count once the clone has run.
CountAtMasks == Len(split_mask)
CountAfterClone == Len(split_mask) + CountTrue(clone_mask)

\* C1 as stated: after each prune_points call, clone concatenation and
\* split concatenation, the five point arrays and the two statistics arrays
\* all have the same length.
C1_SevenArraysSameLength ==
    pc \in {"cull_scale", "clone", "split", "split_prune", "finish"}
        => Cardinality(PointLens(splats) \cup StatLens) = 1

\* C1 as amended: the five point arrays always have one length and the two
\* statistics arrays one length; the statistics have the point arrays'
\* length after each prune_points call that returns, and after a clone or
\* split concatenation they still have the length from before the clone.
C1_ArraysSameLength ==
    /\ Cardinality(PointLens(splats)) = 1
    /\ Cardinality(StatLens) = 1
    /\ pc \in {"cull_scale", "clone"} => StatLens = {NumSplats(splats)}
    /\ pc \in {"split", "split_prune"} => StatLens = {CountAtMasks}
    /\ pc = "finish" =>
          StatLens = {IF TrueSet(split_mask) # {} THEN NumSplats(splats)
                      ELSE CountAtMasks}

\* A clone and a split concatenation have both run: the statistics are shorter.
C1_Witness ==
    /\ pc = "split_prune"
    /\ TrueSet(clone_mask) # {}
    /\ Len(grad_2d_accum) < NumSplats(splats)

\* C2: at every step boundary the two statistics arrays and the five point
\* arrays all have the length of the point set.
C2_StepBoundaryLengths ==
    pc = "idle" => /\ PointLens(splats) = {NumSplats(splats)}
                   /\ StatLens = {NumSplats(splats)}

\* A step that refined has returned a point set that grew.
C2_Witness ==
    /\ pc = "idle"
    /\ iter > 0
    /\ optim = 0
    /\ NumSplats(splats) > MaxInitPoints

\* C3: a culling prune that keeps at least one row leaves exactly the rows
\* whose mask entry is false, in order, in all five point arrays and in both
\* statistics arrays, each row with its values.
C3_PruneKeepsRows ==
    [][(Culling /\ pc' \notin {pc, "panicked"} /\ TrueSet(BoolNot(CullMask)) # {})
        => LET keep == TrueSet(BoolNot(CullMask))
           IN  /\ KeptRowsAre(splats, splats', TrueSet(CullMask))
               /\ Len(grad_2d_accum') = Cardinality(keep)
               /\ Len(xy_grad_counts') = Cardinality(keep)
               /\ \A i \in keep :
                    /\ grad_2d_accum'[RankIn(keep, i)] = grad_2d_accum[i]
                    /\ xy_grad_counts'[RankIn(keep, i)] = xy_grad_counts[i]]_vars

\* The first row was culled and the second, seen once or more, is now the first.
C3_Witness ==
    /\ pc = "cull_scale"
    /\ NumSplats(splats) = 1
    /\ splats.means[1] = InitMeans(2)
    /\ xy_grad_counts[1] >= 1

\* C4: prune_points with an all-false mask changes nothing, in the batch
\* trainer and in the single-view trainer.
C4_PruneNothingIsNoOp ==
    /\ [][(Culling /\ NumSplats(splats) >= 1 /\ TrueSet(CullMask) = {})
            => UNCHANGED <<splats, grad_2d_accum, xy_grad_counts>>]_vars
    /\ [](PrunePointsSV(splats, xy_grad_counts, grad_2d_accum,
                        [i \in 1..NumSplats(splats) |-> FALSE])
            = [splats |-> splats, max_radii_2d |-> xy_grad_counts,
               xy_grad_norm_accum |-> grad_2d_accum])

\* The first refinement ran both culling prunes and every initial row is there.
C4_Witness ==
    /\ pc = "clone"
    /\ iter = config.refine_every
    /\ NumSplats(splats) = MaxInitPoints
    /\ \A i \in 1..NumSplats(splats) : xy_grad_counts[i] >= 1

\* C5: a culling prune whose mask selects every row changes no array, and
\* the point set is never empty.
C5_EmptyingPruneRejected ==
    /\ [][(Culling /\ NumSplats(splats) >= 1 /\ TrueSet(BoolNot(CullMask)) = {})
            => UNCHANGED <<splats, grad_2d_accum, xy_grad_counts>>]_vars
    /\ [](NumSplats(splats) >= 1)

\* C6: the clone leaves every row at its index and appends, for the j-th
\* cloned index in ascending order, an exact copy as the j-th new row.
C6_CloneAppendsCopies ==
    [][(pc = "clone" /\ pc' = "split" /\ TrueSet(clone_mask') # {})
        => LET n    == NumSplats(splats)
               cset == TrueSet(clone_mask')
           IN  /\ PointLens(splats') = {n + Cardinality(cset)}
               /\ \A i \in 1..n : RowAt(splats', i) = RowAt(splats, i)
               /\ \A i \in cset :
                    RowAt(splats', n + RankIn(cset, i)) = RowAt(splats, i)]_vars

\* The second row was cloned and the first was not.
C6_Witness ==
    /\ pc = "split"
    /\ TrueSet(clone_mask) = {2}
    /\ splats.means[NumSplats(splats)] = splats.means[2]

\* C7: a split of samps parents appends 2*samps rows, then removes exactly
\* the parents and keeps every other row; the cycle ends with the count
\* after culling plus the clones plus samps.
C7_SplitCounts ==
    /\ [][(pc = "split" /\ pc' = "split_prune")
            => /\ PointLens(splats') = {NumSplats(splats) + 2 * CountTrue(split_mask)}
               /\ \A i \in 1..NumSplats(splats) :
                    RowAt(splats', i) = RowAt(splats, i)]_vars
    /\ [][(pc = "split_prune" /\ pc' = "finish")
            => KeptRowsAre(splats, splats', TrueSet(split_mask))]_vars
    /\ [](pc = "finish" =>
            NumSplats(splats) = CountAtMasks + CountTrue(clone_mask)
                                    + CountTrue(split_mask))

\* A cycle that cloned and split has pruned the parents.
C7_Witness ==
    /\ pc = "finish"
    /\ TrueSet(clone_mask) # {}
    /\ TrueSet(split_mask) # {}

\* C8: child rows k and samps+k of the k-th parent carry its rotation,
\* colour and raw opacity, its scale divided by 1.6 on every axis, and
\* positions that sum to twice the parent's.
C8_SplitChildren ==
    [][(pc = "split" /\ pc' = "split_prune")
        => LET n     == NumSplats(splats)
               pset  == TrueSet(split_mask)
               samps == Cardinality(pset)
           IN  \A p \in pset : \A c \in {n + RankIn(pset, p), n + samps + RankIn(pset, p)} :
                 /\ splats'.rotation[c] = splats.rotation[p]
                 /\ splats'.sh_coeffs[c] = splats.sh_coeffs[p]
                 /\ splats'.raw_opacity[c] = splats.raw_opacity[p]
                 /\ \A a \in 1..3 :
                      Exp(splats'.log_scales[c][a]) =
                        (Exp(splats.log_scales[p][a]) * 10) \div 16
                 /\ VAdd(splats'.means[n + RankIn(pset, p)],
                         splats'.means[n + samps + RankIn(pset, p)])
                      = VAdd(splats.means[p], splats.means[p])]_vars

\* Two children lie apart on either side of their parent.
C8_Witness ==
    /\ pc = "split_prune"
    /\ splats.means[CountAfterClone + 1]
         # splats.means[CountAfterClone + CountTrue(split_mask) + 1]

\* C9: during a split of samps parents of n points the count is n, then
\* n + 2*samps, then n + samps, and never below n.
C9_ConcatBeforePrune ==
    /\ pc = "split" => NumSplats(splats) = CountAfterClone
    /\ pc = "split_prune" =>
          NumSplats(splats) = CountAfterClone + 2 * CountTrue(split_mask)
    /\ pc = "finish" => NumSplats(splats) = CountAfterClone + CountTrue(split_mask)
    /\ pc \in {"split", "split_prune", "finish"} => NumSplats(splats) >= CountAfterClone

\* Two parents were split and their four children are in, the parents still there.
C9_Witness ==
    /\ pc = "split_prune"
    /\ CountTrue(split_mask) >= 2

\* C10: of the rows that survived culling, the cloned ones are those with
\* average gradient >= densify_grad_thresh and size < densify_size_thresh,
\* the split ones those with average >= threshold and size >= threshold.
C10_DensifyDecision ==
    pc = "split" =>
        /\ Len(clone_mask) = CountAtMasks
        /\ \A i \in 1..CountAtMasks :
             LET big  == grad_2d_accum[i]
                            >= config.densify_grad_thresh * Max2(xy_grad_counts[i], 1)
                 size == Exp(MaxDim(splats.log_scales[i]))
             IN  /\ clone_mask[i] <=> (big /\ size < config.densify_size_thresh)
                 /\ split_mask[i] <=> (big /\ size >= config.densify_size_thresh)
                 /\ ~(clone_mask[i] /\ split_mask[i])
                 /\ (clone_mask[i] \/ split_mask[i]) <=> big

\* A row at both boundaries is split, and a row seen twice stays below the threshold.
C10_Witness ==
    /\ pc = "split"
    /\ \E i \in 1..CountAtMasks :
         /\ split_mask[i]
         /\ Exp(MaxDim(splats.log_scales[i])) = config.densify_size_thresh
         /\ grad_2d_accum[i] = config.densify_grad_thresh * xy_grad_counts[i]
    /\ \E i \in 1..CountAtMasks :
         /\ xy_grad_counts[i] >= 2
         /\ grad_2d_accum[i] >= config.densify_grad_thresh
         /\ ~clone_mask[i] /\ ~split_mask[i]

\* C11: the alpha prune removes exactly the rows whose sigmoid(raw_opacity)
\* is strictly below cull_alpha_thresh, the scale prune then removes exactly
\* the survivors whose largest exp(log_scale) is strictly above
\* cull_scale_thresh, and the clone and split masks are computed on the rows
\* that survived both prunes.
C11_CullThenDensify ==
    [][/\ (pc = "cull_alpha" /\ pc' = "cull_scale") =>
             KeptRowsAre(splats, splats',
                 {i \in 1..NumSplats(splats) :
                      Sigmoid(splats.raw_opacity[i]) < config.cull_alpha_thresh})
       /\ (pc = "cull_scale" /\ pc' = "clone") =>
             KeptRowsAre(splats, splats',
                 {i \in 1..NumSplats(splats) :
                      Exp(Max2(splats.log_scales[i][1],
                               Max2(splats.log_scales[i][2], splats.log_scales[i][3])))
                          > config.cull_scale_thresh})
       /\ (pc = "clone" /\ pc' = "split") =>
             /\ Len(clone_mask') = NumSplats(splats)
             /\ Len(split_mask') = NumSplats(splats)
             /\ \A i \in 1..NumSplats(splats) :
                  /\ Sigmoid(splats.raw_opacity[i]) >= config.cull_alpha_thresh
                  /\ \A a \in 1..3 :
                       Exp(splats.log_scales[i][a]) <= config.cull_scale_thresh
      ]_vars

\* A cull removed a row of the step's point set and a survivor is cloned.
C11_Witness ==
    /\ pc = "split"
    /\ Len(clone_mask) < optim
    /\ TrueSet(clone_mask) # {}

\* The gradient magnitudes a step can measure, per row.
MagnitudesOf(n) == [1..n -> 0..(2 * config.densify_grad_thresh)]

\* C12: a step with iter > warmup_steps adds each row's gradient magnitude
\* to its sum and adds one to its count exactly when that magnitude is
\* positive; a step inside warmup adds to neither; so the average used at
\* refinement, sum / max(count, 1), is the sum of the magnitudes of the
\* counted steps over the number of those steps with a positive magnitude.
C12_AverageGradient ==
    [][(pc = "idle" /\ pc' # "panicked") =>
          IF iter > config.warmup_steps
          THEN \E m \in MagnitudesOf(Len(grad_2d_accum)) :
                  /\ Len(grad_2d_accum') = Len(grad_2d_accum)
                  /\ Len(xy_grad_counts') = Len(xy_grad_counts)
                  /\ \A i \in 1..Len(grad_2d_accum) :
                       /\ grad_2d_accum'[i] = grad_2d_accum[i] + m[i]
                       /\ xy_grad_counts'[i] =
                              xy_grad_counts[i] + (IF m[i] > 0 THEN 1 ELSE 0)
          ELSE /\ grad_2d_accum' = grad_2d_accum
               /\ xy_grad_counts' = xy_grad_counts
      ]_vars

\* Two steps were accumulated, a row was visible in one of them only, and
\* its sum is that step's magnitude: its average is not halved.
C12_Witness ==
    /\ pc = "cull_alpha"
    /\ config.refine_every = 2
    /\ iter = 2
    /\ \E i \in 1..Len(grad_2d_accum) :
         /\ xy_grad_counts[i] = 1
         /\ grad_2d_accum[i] = config.densify_grad_thresh

\* C13: a step with iter <= warmup_steps accumulates nothing, runs no
\* prune, clone or split and leaves the optimizer's moment state in place;
\* a step runs the refinement cycle exactly when iter > warmup_steps and
\* iter is a multiple of refine_every, and a step that does not run it
\* returns the point count it was given.
C13_WarmupAndRefineSchedule ==
    [][/\ (pc = "idle" /\ pc' # "panicked") =>
             /\ (pc' = "cull_alpha") <=>
                    (iter > config.warmup_steps /\ iter % config.refine_every = 0)
             /\ pc' \in {"cull_alpha", "idle"}
             /\ pc' = "idle" =>
                    /\ iter' = iter + 1
                    /\ NumSplats(splats') = NumSplats(splats)
                    /\ optim' = NumSplats(splats)
             /\ iter <= config.warmup_steps =>
                    /\ pc' = "idle"
                    /\ grad_2d_accum' = grad_2d_accum
                    /\ xy_grad_counts' = xy_grad_counts
       /\ pc \in {"cull_alpha", "cull_scale", "clone", "split", "split_prune", "finish"}
             => (iter > config.warmup_steps /\ iter % config.refine_every = 0)
      ]_vars

\* Two warmup steps, then two counted steps, the second of which refines.
C13_Witness ==
    /\ pc = "cull_alpha"
    /\ config.warmup_steps = 2
    /\ config.refine_every = 2
    /\ iter = 4
    /\ xy_grad_counts = <<2>>
    /\ grad_2d_accum = <<2 * config.densify_grad_thresh>>

\* The number of refinement cycles run up to and including iteration i:
\* the iterations after warmup that are multiples of refine_every.
RefinementsUpTo(i) ==
    Cardinality({j \in 1..i : j > config.warmup_steps /\ j % config.refine_every = 0})

\* The logit every row holds after an opacity reset.
OpacityAfterReset == (2 * config.cull_alpha_thresh) \div 1000

\* The refinement cycle that is ending resets the opacity / leaves it alone.
OpacityIsReset ==
    /\ Len(splats'.raw_opacity) = Len(splats.raw_opacity)
    /\ \A i \in 1..Len(splats.raw_opacity) : splats'.raw_opacity[i] = OpacityAfterReset

OpacityIsKept == splats'.raw_opacity = splats.raw_opacity

\* C14 as stated: the k-th refinement cycle that runs, counted from the
\* first one after warmup, resets the opacity if and only if k is a
\* multiple of reset_alpha_every.
C14_ResetEveryKthCycle ==
    [][pc = "finish" =>
          IF RefinementsUpTo(iter) % config.reset_alpha_every = 0
          THEN OpacityIsReset ELSE OpacityIsKept]_vars

\* C14 as amended: the refinement cycle of iteration iter (a multiple of
\* refine_every) resets the opacity if and only if iter / refine_every is a
\* multiple of reset_alpha_every, that is iter is a multiple of
\* refine_every * reset_alpha_every; the cycles are counted from iteration
\* 0, not from the end of warmup.
C14_ResetOnIterationMultiple ==
    [][pc = "finish" =>
          /\ iter % config.refine_every = 0
          /\ IF (iter \div config.refine_every) % config.reset_alpha_every = 0
             THEN OpacityIsReset ELSE OpacityIsKept]_vars

\* With warmup_steps 2, refine_every 2 and reset_alpha_every 2 the first
\* refinement cycle (iteration 4) has reset the opacity.
C14_Witness ==
    /\ pc = "idle"
    /\ config.warmup_steps = 2
    /\ config.refine_every = 2
    /\ config.reset_alpha_every = 2
    /\ iter = 5
    /\ \A i \in 1..NumSplats(splats) : splats.raw_opacity[i] = OpacityAfterReset

\* The point set s with every logit raised by one step.
OpacityShifted(s) ==
    [s EXCEPT !.raw_opacity = [i \in 1..Len(s.raw_opacity) |-> s.raw_opacity[i] + 1]]

\* r is s with raw_opacity overwritten by one value, the same whatever the
\* rows held before (r2 is the reset of s with other logits).
IsOverwriteOf(s, r, r2) ==
    /\ Len(r.raw_opacity) = Len(s.raw_opacity)
    /\ \A i, j \in 1..Len(r.raw_opacity) : r.raw_opacity[i] = r.raw_opacity[j]
    /\ r2.raw_opacity = r.raw_opacity
    /\ r.means = s.means
    /\ r.rotation = s.rotation
    /\ r.sh_coeffs = s.sh_coeffs
    /\ r.log_scales = s.log_scales

\* C15: reset_opacity, of the batch trainer and of the single-view trainer,
\* applied to the point set at the end of a refinement cycle (rows appended
\* by the clone and the split included) leaves every row of raw_opacity
\* with one and the same value, which does not depend on what the rows held
\* before, and changes no other array and not the point count.
C15_ResetIsOverwrite ==
    pc = "finish" =>
        /\ IsOverwriteOf(splats, ResetOpacity(splats),
                         ResetOpacity(OpacityShifted(splats)))
        /\ IsOverwriteOf(splats, ResetOpacitySV(splats),
                         ResetOpacitySV(OpacityShifted(splats)))

\* C16: when a step returns, the optimizer's moment state is fresh or was
\* created for the point count of the returned point set; so every
\* optimizer update of the next step runs with moment state that fits the
\* rows it updates, and a step that changed the point count has
\* re-initialised the optimizer before it returned.
C16_OptimizerFitsPointCount ==
    pc = "idle" => (optim = 0 \/ optim = NumSplats(splats))

\* An optimizer update has run on a point set that an earlier refinement grew.
C16_Witness ==
    /\ pc = "cull_alpha"
    /\ optim = NumSplats(splats)
    /\ optim > MaxInitPoints

\* A quaternion of length one, to the precision of the fixed point: its
\* length rounds down to QuatOne.
IsNormalised(q) == ISqrt(q[1] * q[1] + q[2] * q[2] + q[3] * q[3] + q[4] * q[4]) = QuatOne

\* C17: the rotations are normalised after the last optimizer update of a
\* step and later only whole rows are selected or duplicated, so every
\* rotation row of the point set, at a step boundary and inside the
\* refinement (clones and split children included), is a normalised
\* quaternion.
C17_RotationsNormalised ==
    /\ Len(splats.rotation) = NumSplats(splats)
    /\ \A i \in 1..Len(splats.rotation) : IsNormalised(splats.rotation[i])

\* The optimizer moved a rotation off the unit sphere twice, and the point
\* set returned holds a split child or a clone.
C17_Witness ==
    /\ pc = "idle"
    /\ iter >= 2
    /\ NumSplats(splats) > MaxInitPoints
    /\ splats.rotation[1] \notin {QuatIdentity, InitRotation(2)}

\* C18: a step whose backward pass gives no gradient for means,
\* raw_opacity, sh_coeffs, rotation, log_scales or xys_dummy aborts: it
\* returns no point set, accumulates no statistics, starts no refinement
\* and does not increment iter; and nothing runs after the abort.
C18_MissingGradientIsFatal ==
    [][/\ (/\ pc = "idle"
           /\ \E p \in {"means", "raw_opacity", "sh_coeffs", "rotation",
                        "log_scales", "xys_dummy"} : p \notin grads')
          => /\ pc' = "panicked"
             /\ iter' = iter
             /\ splats' = splats
             /\ grad_2d_accum' = grad_2d_accum
             /\ xy_grad_counts' = xy_grad_counts
       /\ pc = "panicked" => vars' = vars
      ]_vars

\* A step past warmup aborted on the missing xys_dummy gradient, after its
\* optimizer updates.
C18_Witness ==
    /\ pc = "panicked"
    /\ grads = {"means", "raw_opacity", "sh_coeffs", "rotation", "log_scales"}
    /\ iter > config.warmup_steps
    /\ optim = NumSplats(splats)

\* C19: a step that meets a non-finite gradient aborts instead of
\* returning, so no non-finite value is ever accumulated into the
\* statistics, no step returns with non-finite statistics, and no clone or
\* split mask is computed from them.
C19_NonFiniteIsFatal ==
    \A i \in 1..Len(grad_2d_accum) : ~IsNaN(grad_2d_accum[i])

\* A step is running: it is suspended at one of the positions of its
\* refinement block.
StepRunning == pc \in {"cull_alpha", "cull_scale", "clone", "split", "split_prune", "finish"}

C21_StatsReportAppliedRate ==
    (pc = "idle" /\ iter > 0) =>
        /\ stats.lr_mean = lr_applied
        /\ stats.iter = iter

\* C22: every step that gets all its gradients makes exactly five
\* optimizer updates, one per learnable array, each array in exactly one
\* of them and each with the rate of its own group, in the order means,
\* raw_opacity, sh_coeffs, rotation, log_scales.
C22_OneUpdatePerGroup ==
    (pc \notin {"panicked"} /\ (iter > 0 \/ pc # "idle")) =>
        /\ [k \in 1..Len(optim_updates) |-> optim_updates[k].param] =
               <<"means", "raw_opacity", "sh_coeffs", "rotation", "log_scales">>
        /\ [k \in 1..Len(optim_updates) |-> optim_updates[k].lr] =
               <<"sched_mean", "lr_opac", "lr_coeffs", "lr_rotation", "lr_scale">>
        /\ \A p \in {"means", "raw_opacity", "sh_coeffs", "rotation", "log_scales"} :
             Cardinality({k \in 1..Len(optim_updates) : optim_updates[k].param = p}) = 1

\* A step has made its optim_updates and moved a row in all five arrays since
\* the start: the delta of means, colour and rotation, then of opacity or scale.
C22_Witness ==
    /\ pc = "idle"
    /\ iter >= 2
    /\ Len(optim_updates) = 5
    /\ NumSplats(splats) >= 1
    /\ splats.means[1] # InitMeans(1)
    /\ splats.sh_coeffs[1] # <<0>>
    /\ splats.rotation[1] # InitRotation(1)
    /\ splats.raw_opacity[1] \in {-25, -55}

\* The iteration of the last refinement before iteration i (0: none).
LastRefinementBefore(i) ==
    LET past == {j \in 1..(i - 1) : j > config.warmup_steps /\ j % config.refine_every = 0}
    IN  IF past = {} THEN 0 ELSE CHOOSE j \in past : \A k \in past : k <= j

\* The steps whose gradients a refinement at iteration i consumes: those
\* after warmup and after the previous refinement, up to and including i.
StatisticsWindow(i) ==
    {j \in 1..i : j > config.warmup_steps /\ j > LastRefinementBefore(i)}

\* C23: every refinement cycle ends with both statistics arrays all zero
\* and of the new point count; the step that refines has accumulated its
\* own gradient before the refinement starts; and the statistics a
\* refinement consumes hold no more than the steps of its window: the
\* refine_every steps since the previous refinement, or for the first
\* refinement the steps with iter > warmup_steps, between 1 and
\* refine_every of them.
C23_StatisticsWindow ==
    [][/\ pc = "finish" =>
             /\ grad_2d_accum' = [i \in 1..NumSplats(splats') |-> 0]
             /\ xy_grad_counts' = [i \in 1..NumSplats(splats') |-> 0]
       /\ (pc = "idle" /\ pc' = "cull_alpha") =>
             LET w == Cardinality(StatisticsWindow(iter))
             IN  /\ w >= 1 /\ w <= config.refine_every
                 /\ w = (IF LastRefinementBefore(iter) = 0
                            THEN iter - config.warmup_steps
                            ELSE config.refine_every)
                 /\ \A i \in 1..Len(xy_grad_counts') :
                      /\ xy_grad_counts'[i] <= w
                      /\ grad_2d_accum'[i] <= w * config.densify_grad_thresh
                      /\ xy_grad_counts'[i] >= xy_grad_counts[i]
                      /\ xy_grad_counts'[i] = w => xy_grad_counts'[i] = xy_grad_counts[i] + 1
      ]_vars

\* The second refinement (warmup_steps 1, refine_every 3, iteration 6)
\* consumes the gradient of each of the three steps since the first one.
C23_Witness ==
    /\ pc = "cull_alpha"
    /\ config.refine_every = 3
    /\ config.warmup_steps = 1
    /\ iter = 6
    /\ xy_grad_counts = <<3>>
    /\ grad_2d_accum = <<3 * config.densify_grad_thresh>>

\* C24: in every step of the single-view trainer that starts with
\* iter <= warmup_steps, iteration 0 included, no point is pruned, cloned or
\* split, nothing is fed into the radius and gradient statistics, and the
\* optimizer is not re-initialised.
C24_WarmupStepsOnlyOptimise ==
    [][(pc = "idle" /\ iter <= config.warmup_steps)
          => /\ NumSplats(splats') = NumSplats(splats)
             /\ max_radii_2d' = max_radii_2d
             /\ xy_grad_norm_accum' = xy_grad_norm_accum
             /\ optim' = NumSplats(splats)]_vars

\* C25: when the single-view densify_and_prune has cloned at least four rows
\* and split at least four rows of a set of n rows, the set it leaves has
\* n + clones + splits rows.
C25_ClonesSurviveSplit ==
    (pc = "sv_finish" /\ CountTrue(clone_mask) >= MinSelectSV
                      /\ CountTrue(split_mask) >= MinSelectSV)
        => NumSplats(splats) = Len(split_mask) + CountTrue(clone_mask)
                                   + CountTrue(split_mask)

SqLen(v) == v[1] * v[1] + v[2] * v[2] + v[3] * v[3]

IsUnitQuat(q) == q[1] * q[1] + q[2] * q[2] + q[3] * q[3] + q[4] * q[4] = QuatOne * QuatOne

\* The offset quaternion_rotation returned for the k-th parent of the split
\* just made: the k-th child minus its parent.
SplitOffset(k) ==
    LET s == CountTrue(split_mask)
    IN  VSub(splats.means[NumSplats(splats) - 2 * s + k],
             splats.means[ArgWhere(split_mask)[k]])

\* C26: quaternion_rotation(q, v) returns v rotated by q for every unit
\* quaternion q: the identity returns v unchanged, and the squared length of
\* the result is the squared length of v (to a tenth, for the rounding of
\* the fixed-point arithmetic). Stated for the offsets of every split.
C26_RotationKeepsLength ==
    pc = "split_prune" =>
        \A k \in 1..CountTrue(split_mask) :
            LET parent == ArgWhere(split_mask)[k]
                q      == splats.rotation[parent]
                scale  == [a \in 1..3 |-> Exp(splats.log_scales[parent][a])]
            IN  IsUnitQuat(q) =>
                  \E rnd \in NormalVals :
                     LET v == VMul(rnd, scale)
                     IN  /\ SplitOffset(k) = QuaternionRotationRow(q, v)
                         /\ q = QuatIdentity => SplitOffset(k) = v
                         /\ 10 * SqLen(SplitOffset(k)) >= 9 * SqLen(v)
                         /\ 10 * SqLen(SplitOffset(k)) <= 11 * SqLen(v)

\* The identity half of C26 alone.
C26_IdentityKeepsVector ==
    pc = "split_prune" =>
        \A k \in 1..CountTrue(split_mask) :
            LET parent == ArgWhere(split_mask)[k]
                scale  == [a \in 1..3 |-> Exp(splats.log_scales[parent][a])]
            IN  splats.rotation[parent] = QuatIdentity =>
                  \E rnd \in NormalVals : SplitOffset(k) = VMul(rnd, scale)

\* The mask of the prune_points call the step is about to make.
PendingPrune ==
    IF pc = "cull_alpha" THEN AlphaMask(splats)
    ELSE IF pc = "cull_scale" THEN ScaleMask(splats)
    ELSE split_mask

\* C27: in every prune_points call of a refinement cycle that selects, the
\* keep-index list holds only row numbers that exist in each of the five
\* point arrays and in both statistics arrays.
C27_KeepIndicesInRange ==
    pc \in {"cull_alpha", "cull_scale", "split_prune"} =>
        LET valid_inds == ValidInds(PendingPrune, NumSplats(splats))
        IN  (Len(PendingPrune) > 0 /\ Len(valid_inds) < NumSplats(splats)) =>
               /\ ~ReadsPastEnd(splats.means, valid_inds)
               /\ ~ReadsPastEnd(splats.sh_coeffs, valid_inds)
               /\ ~ReadsPastEnd(splats.rotation, valid_inds)
               /\ ~ReadsPastEnd(splats.raw_opacity, valid_inds)
               /\ ~ReadsPastEnd(splats.log_scales, valid_inds)
               /\ ~ReadsPastEnd(grad_2d_accum, valid_inds)
               /\ ~ReadsPastEnd(xy_grad_counts, valid_inds)

\* C28: the scheduler of the means rate is advanced exactly once per train
\* step, so after k completed steps it has been advanced k times and the
\* rate the k-th step applied is the k-th value of the schedule.
C28_ScheduleAdvancesOncePerStep ==
    pc = "idle" =>
        /\ sched_mean = iter
        /\ iter >= 1 => lr_applied = SchedValue(iter)

AccumulatedSteps ==
    IF pc = "idle"
    THEN {j \in 1..(iter - 1) : j > config.warmup_steps /\ j > LastRefinementBefore(iter)
                                   /\ ~(j % config.refine_every = 0)}
    ELSE StatisticsWindow(iter)

\* The three statements of C30 about the statistics arrays.
StatisticsConsistent ==
    /\ \A i \in 1..Len(grad_2d_accum) : grad_2d_accum[i] >= 0
    /\ \A i \in 1..Len(xy_grad_counts) :
          /\ xy_grad_counts[i] >= 0
          /\ xy_grad_counts[i] <= Cardinality(AccumulatedSteps)
    /\ Len(grad_2d_accum) = Len(xy_grad_counts)
    /\ \A i \in 1..Len(grad_2d_accum) : grad_2d_accum[i] = 0 <=> xy_grad_counts[i] = 0

\* The consequence C30 draws: with densify_grad_thresh > 0 a row that has
\* seen no non-zero gradient since the last reset is in neither mask.
QuietRowsNotDensified ==
    (pc = "split" /\ config.densify_grad_thresh > 0) =>
        \A i \in 1..Len(clone_mask) :
            xy_grad_counts[i] = 0 => ~clone_mask[i] /\ ~split_mask[i]

\* C30: in every reachable state, for every row, grad_2d_accum is not
\* negative, xy_grad_counts lies between 0 and the number of accumulating
\* steps since the last reset, and grad_2d_accum is 0 exactly when
\* xy_grad_counts is 0; so a row with no non-zero gradient since the last
\* reset is never cloned or split.
C30_StatisticsConsistent ==
    pc # "panicked" => StatisticsConsistent /\ QuietRowsNotDensified

====
